---- MODULE Spec2Model ----
(***************************************************************************)
(* Latency based IP geolocation (src/src/measure.ts): the staged narrowing *)
(* continent -> country -> [US state] -> city, driven by runMeasurements.  *)
(* The probe service (createMeasurement / getMeasurement /                 *)
(* awaitMeasurement) is the environment: every response it can give is an  *)
(* input of the action that receives it.                                   *)
(***************************************************************************)
EXTENDS Integers, Sequences, FiniteSets, TLC

VARIABLES
    pc,             \* position of runMeasurements: "continents", "create", "poll", "sleep", "done", "failed"
    phase,          \* the phase function being run: "continent", "country", "state", "city", "uscity"
    subs,           \* the six concurrent sub-requests of measureContinents (Promise.all),
                    \* with the avgLatency each one returned
    continent,      \* { continent } handed from measureContinents to measureCountries
    jobs,           \* per polled phase: "none", or how its createMeasurement failed, or
                    \* the top-level status of its job in the latest response seen
    best,           \* bestCountry/bestState/bestCity and bestLatency of the running loop
    data,           \* the job state the loop left with (the `data` aggregated after the loop)
    request,        \* the latest createMeasurement request of a polled phase
    countryResults, \* runMeasurements' countryResults
    stateResults,   \* runMeasurements' stateResults
    result,         \* the list runMeasurements returned
    error,          \* message of the Error thrown out of runMeasurements ("" when none)
    callFailed,     \* whether a service call of the run has answered with a non-success response
    limitsRequested, \* sum of the probe limits of the createMeasurement requests made so far
    sample,         \* extractLatencyFromTraceroute: its argument (item.result)
    returned,       \* extractLatencyFromTraceroute: whether the call has returned
    extracted,      \* extractLatencyFromTraceroute: the value it returned
    aggInput,       \* aggregation after a phase's loop: the phase, its argument and data.results
    aggReturned,    \* aggregation after a phase's loop: whether the phase has returned
    aggRanked,      \* aggregation after a phase's loop: the sorted results it returned
    aggAgain,       \* aggregation after a phase's loop: whether it has run again on the same data
    frontInput,     \* front ends: how their call of runMeasurements ended (thrown, or the list returned)
    cliPc,          \* index.ts main: "await" (in runMeasurements), "exit0", "exit1"
    cliOut,         \* index.ts main: the lines written from the return of runMeasurements on
    wsPc,           \* server.ts handleCommand: "await" (in runMeasurements), "prompt"
    wsOut,          \* server.ts handleCommand: the lines written from the return of runMeasurements on
    sessions,       \* worker RateLimiter: this.sessions, per client ip
    now,            \* worker RateLimiter: what Date.now() returns
    requests,       \* worker fetch: the invocations in flight and where each one stands
    response,       \* worker fetch: the latest response returned, with what the request carried
    active,         \* the <<ip, session>> pairs whose acquire was answered 'ok' and that
                    \* have not released since
    cmdInput,       \* server.ts handleCommand: its argument `input`, as its whitespace separated parts
    cmdPc,          \* server.ts handleCommand: "idle", "call" (entered), "await" (in runMeasurements), "prompt"
    cmdOut,         \* server.ts handleCommand: the lines written before runMeasurements
    cmdRun,         \* server.ts handleCommand: the ip and the limit passed to runMeasurements
    busy,           \* server.ts connection: `busy`
    inputBuffer,    \* server.ts connection: `inputBuffer`
    chunkRest,      \* server.ts connection: the characters the suspended message handler has yet to read
    inProgress,     \* server.ts connection: the calls of handleCommand that have not returned
    sent,           \* server.ts connection: the frames the message handler has sent
    received,       \* server.ts connection: the messages received
    discarded,      \* server.ts connection: the messages that returned at `if (busy) return`
    closed          \* server.ts connection: whether the socket has closed

\* the state of a run of runMeasurements
runVars == <<pc, phase, subs, continent, jobs, best, data, request,
             countryResults, stateResults, result, error, callFailed, limitsRequested>>

\* the state of one call of extractLatencyFromTraceroute
extractVars == <<sample, returned, extracted>>

\* the state of one aggregation of a final job state
aggVars == <<aggInput, aggReturned, aggRanked, aggAgain>>

\* the state of the two front ends after one call of runMeasurements
frontVars == <<frontInput, cliPc, cliOut, wsPc, wsOut>>

\* the state of the worker (src/web/worker/index.ts) and its rate limiter
limiterVars == <<sessions, now, requests, response, active>>

\* the state of one call of the server's handleCommand up to runMeasurements
cmdVars == <<cmdInput, cmdPc, cmdOut, cmdRun>>

\* the state of one WebSocket connection of the server
connVars == <<busy, inputBuffer, chunkRest, inProgress, sent, received, discarded, closed>>

\* the state of the web relay (src/web)
webVars == <<limiterVars, cmdVars, connVars>>

\* the state of the functions specified on their own
unitVars == <<extractVars, aggVars, frontVars, webVars>>

vars == <<runVars, unitVars>>

-----------------------------------------------------------------------------
(* Bounds of the model *)

\* most probe results one service response carries
MaxProbes == 2

\* the hop round-trip times (thousandths of a ms) a finished probe of the model
\* can report
Rtts == {1000, 2000}

-----------------------------------------------------------------------------
(* Program constants *)

CONTINENTS ==
    << [code |-> "AF", magic |-> "africa"],
       [code |-> "AS", magic |-> "asia"],
       [code |-> "EU", magic |-> "europe"],
       [code |-> "NA", magic |-> "north america"],
       [code |-> "OC", magic |-> "oceania"],
       [code |-> "SA", magic |-> "south america"] >>

ContinentIdx == 1..Len(CONTINENTS)

\* limit of each continent sub-request
ContinentLimit == 5

\* default of runMeasurements' limit parameter
DefaultLimit == 50

PolledPhases == {"country", "state", "city", "uscity"}

\* top-level job statuses a getMeasurement response can carry: in progress,
\* finished, and a terminal status other than finished
JobStatuses == {"in-progress", "finished", "timeout"}

NoContinentData == "No successful measurements from any continent"
CreateFailed == "Failed to create measurement"
GetFailed == "Failed to get measurement"

-----------------------------------------------------------------------------
(* Values *)

null == -1

\* An rtt of the service is a decimal number of milliseconds with three
\* fraction digits: the model writes it as the integer number of thousandths
\* (183 is 0.183 ms). Math.min and the comparisons of rtts are exact on it.
RttScale == 1000

\* The average of rtts is a JavaScript number: an IEEE 754 double, rounded to
\* nearest (ties to even) by every operation. A positive double is
\* mant * 2^exp with 2^52 <= mant < 2^53, written [exp, hi, lo] with
\* mant = hi * 2^LoBits + lo.
Precision == 53
LoBits == 27

\* The exact sums and quotients, before they are rounded, are sequences of
\* limbs of LimbBits bits, most significant first.
LimbBits == 20

\* the number of bits of a limb v > 0
BitLen(v) == CHOOSE k \in 1..LimbBits : 2^(k - 1) <= v /\ v < 2^k

\* what the digits v, the lowest of which is bit base of a number, put into
\* the bits t .. t + w - 1 of that number (bit 0 is the lowest; t may be
\* negative: there are no bits below bit 0)
Part(v, base, t, w) ==
    IF base - t >= w THEN 0
    ELSE IF base - t >= 0 THEN (v % 2^(w - (base - t))) * 2^(base - t)
    ELSE IF t - base > 30 THEN 0
    ELSE (v \div 2^(t - base)) % 2^w

\* bits t .. t + w - 1 of the limbs L, from limb i on
RECURSIVE FieldFrom(_, _, _, _)
FieldFrom(L, t, w, i) ==
    IF i > Len(L) THEN 0
    ELSE Part(L[i], LimbBits * (Len(L) - i), t, w) + FieldFrom(L, t, w, i + 1)

Field(L, t, w) == FieldFrom(L, t, w, 1)

\* whether a bit of L below bit t is set
LowBits(L, t) ==
    \E i \in 1..Len(L) :
        /\ LimbBits * (Len(L) - i) < t
        /\ IF LimbBits * (Len(L) - i + 1) <= t THEN L[i] # 0
           ELSE L[i] % 2^(t - LimbBits * (Len(L) - i)) # 0

\* the next double up when the rounding goes up
Increment(d, up) ==
    IF ~up THEN d
    ELSE IF d.lo + 1 < 2^LoBits THEN [d EXCEPT !.lo = d.lo + 1]
    ELSE IF d.hi + 1 < 2^(Precision - LoBits) THEN [d EXCEPT !.hi = d.hi + 1, !.lo = 0]
    ELSE [exp |-> d.exp + 1, hi |-> 2^(Precision - LoBits - 1), lo |-> 0]

\* the double nearest to L * 2^e (plus a fraction of 2^e when sticky), ties
\* to even; L is not zero
RoundLimbs(L, sticky, e) ==
    LET top == CHOOSE i \in 1..Len(L) : L[i] # 0 /\ \A j \in 1..(i - 1) : L[j] = 0
        drop == LimbBits * (Len(L) - top) + BitLen(L[top]) - Precision
        lo == Field(L, drop, LoBits)
        up == /\ drop >= 1
              /\ Field(L, drop - 1, 1) = 1
              /\ (sticky \/ LowBits(L, drop - 1) \/ lo % 2 = 1) IN
    Increment([exp |-> e + drop, hi |-> Field(L, drop + LoBits, Precision - LoBits),
               lo |-> lo], up)

\* the n limbs of mant * 2^s of the double x
DoubleLimbs(x, s, n) ==
    [i \in 1..n |-> Part(x.hi, LoBits + s, LimbBits * (n - i), LimbBits)
                    + Part(x.lo, s, LimbBits * (n - i), LimbBits)]

\* limbs 1..i of a + b, given the carry into limb i
RECURSIVE AddCarry(_, _, _, _)
AddCarry(a, b, i, c) ==
    IF i = 0 THEN <<c>>
    ELSE Append(AddCarry(a, b, i - 1, (a[i] + b[i] + c) \div 2^LimbBits),
                (a[i] + b[i] + c) % 2^LimbBits)

\* long division of the limbs a by n < 2^11, from limb i on with remainder r
RECURSIVE DivStep(_, _, _, _, _)
DivStep(a, n, i, r, q) ==
    IF i > Len(a) THEN [q |-> q, r |-> r]
    ELSE DivStep(a, n, i + 1, (r * 2^LimbBits + a[i]) % n,
                 Append(q, (r * 2^LimbBits + a[i]) \div n))

\* the double a JSON rtt of k thousandths is parsed to
ToDouble(k) ==
    LET d == DivStep(<<k \div 2^LimbBits, k % 2^LimbBits, 0, 0, 0, 0>>, RttScale, 1, 0, <<>>) IN
    RoundLimbs(d.q, d.r # 0, -4 * LimbBits)

\* x + y for y.exp <= x.exp
AddSmaller(x, y) ==
    IF x.exp - y.exp > Precision + 2 THEN x
    ELSE RoundLimbs(AddCarry(DoubleLimbs(x, x.exp - y.exp, 6), DoubleLimbs(y, 0, 6), 6, 0),
                    FALSE, y.exp)

\* a + b
DoubleAdd(x, y) == IF x.exp >= y.exp THEN AddSmaller(x, y) ELSE AddSmaller(y, x)

\* x / n for a count n < 2^11
DoubleDiv(x, n) ==
    LET d == DivStep(DoubleLimbs(x, 4 * LimbBits - Precision, 4), n, 1, 0, <<>>) IN
    RoundLimbs(d.q, d.r # 0, x.exp - (4 * LimbBits - Precision))

Infinity == [exp |-> 1024, hi |-> 0, lo |-> 0]

\* a < b on positive doubles and Infinity
DoubleLess(a, b) ==
    \/ a.exp < b.exp
    \/ a.exp = b.exp /\ (a.hi < b.hi \/ (a.hi = b.hi /\ a.lo < b.lo))

\* latencies.reduce((a, b) => a + b, 0), from the sum acc of the first i - 1
RECURSIVE Reduce(_, _, _)
Reduce(l, i, acc) ==
    IF i > Len(l) THEN acc ELSE Reduce(l, i + 1, DoubleAdd(acc, ToDouble(l[i])))

\* 0 + l[1] is l[1]
Sum(l) == Reduce(l, 2, ToDouble(l[1]))

\* latencies.reduce((a, b) => a + b, 0) / latencies.length, latencies not empty
Mean(l) == DoubleDiv(Sum(l), Len(l))

\* faulty variant: the first element is taken for the smallest
FirstOf(s) == Head(s)

\* Math.min(...s)
RECURSIVE MinOf(_)
MinOf(s) ==
    IF Len(s) = 1 THEN Head(s)
    ELSE LET m == MinOf(Tail(s)) IN IF Head(s) < m THEN Head(s) ELSE m

\* the groups of usable samples a key can collect in a run of the model
LatencyGroups == UNION {[1..n -> Rtts] : n \in 1..MaxProbes}

\* their averages, computed once
GroupAverages == {<<l, Mean(l)>> : l \in LatencyGroups}

\* Mean(l), looked up when l is a group of a run
Average(l) ==
    IF l \in LatencyGroups THEN (CHOOSE p \in GroupAverages : p[1] = l)[2] ELSE Mean(l)

\* the probes of the model: one in the US with state and city, one outside
\* the US whose state and city are not reported
Probes ==
    { [country |-> "US", state |-> "FL", city |-> "Miami"],
      [country |-> "CA", state |-> "", city |-> ""] }

\* item.result of a probe that answered: the last hop did not respond, the
\* hop before it reports r and a slower second packet
FinishedResult(r) ==
    [status |-> "finished",
     hops |-> << [timings |-> <<r + 1, r>>], [timings |-> <<0>>] >>]

\* item.result of a probe still running
PendingResult == [status |-> "in-progress", hops |-> << [timings |-> <<1>>] >>]

TraceResults == {PendingResult} \cup {FinishedResult(r) : r \in Rtts}

\* the probe results of a response: either probe with a finished result, and
\* the US probe still running
Items ==
    {i \in [probe : Probes, result : TraceResults] :
        i.result = PendingResult => i.probe.country = "US"}

ResultSeqs == UNION {[1..n -> Items] : n \in 0..MaxProbes}

\* the responses to awaitMeasurement of a continent sub-request: no, one or
\* two probe results; measureContinents never reads item.probe, so one probe
\* stands for all
ContinentItems == {i \in Items : i.probe.country = "US"}

ContinentResultSeqs ==
    {<<>>} \cup {<<i>> : i \in ContinentItems} \cup {<<i, j>> : i, j \in ContinentItems}

NoData == [status |-> "none", results |-> <<>>]
NoBest == [key |-> "", latency |-> null]
NoRequest == [phase |-> "", magic |-> "", country |-> "", state |-> "", limit |-> 0]

-----------------------------------------------------------------------------
(* Latency extraction and aggregation *)

\* faulty variant: the rtts are not filtered
UnfilteredRtts(hop) == hop.timings

\* hop.timings.map(t => t.rtt).filter(rtt => rtt > 0)
PositiveRtts(hop) == SelectSeq(hop.timings, LAMBDA t : t > 0)

\* hop.timings && hop.timings.length > 0
HasTimings(hop) == "timings" \in DOMAIN hop /\ Len(hop.timings) > 0

\* the loop of extractLatencyFromTraceroute from hop i down to hop 1
RECURSIVE ScanHops(_, _)
ScanHops(hops, i) ==
    IF i = 0 THEN null
    ELSE IF HasTimings(hops[i]) /\ Len(PositiveRtts(hops[i])) > 0
         THEN MinOf(PositiveRtts(hops[i]))
         ELSE ScanHops(hops, i - 1)

\* faulty variant: the status of the result is not looked at
ExtractWhateverStatus(r) ==
    IF "hops" \notin DOMAIN r THEN null ELSE ScanHops(r.hops, Len(r.hops))

extractLatencyFromTraceroute(r) ==
    IF r.status # "finished" \/ "hops" \notin DOMAIN r
    THEN null
    ELSE ScanHops(r.hops, Len(r.hops))

\* the grouping key of a probe in a phase
KeyOf(p, probe) ==
    CASE p = "country" -> probe.country
      [] p = "state"   -> IF probe.state = "" THEN "Unknown" ELSE probe.state
      [] OTHER         -> IF probe.city = "" THEN "Unknown" ELSE probe.city

\* a Map<string, number[]> as the sequence of its entries in insertion order
RECURSIVE MapPush(_, _, _)
MapPush(m, k, v) ==
    IF m = <<>> THEN << [key |-> k, latencies |-> <<v>>] >>
    ELSE IF Head(m).key = k
         THEN << [key |-> k, latencies |-> Append(Head(m).latencies, v)] >> \o Tail(m)
         ELSE <<Head(m)>> \o MapPush(Tail(m), k, v)

\* for (const item of data.results) { ... map.get(key).push(latency) }
RECURSIVE GroupByKey(_, _, _)
GroupByKey(p, results, m) ==
    IF results = <<>> THEN m
    ELSE LET latency == extractLatencyFromTraceroute(Head(results).result) IN
         GroupByKey(p, Tail(results),
                    IF latency # null
                    THEN MapPush(m, KeyOf(p, Head(results).probe), latency)
                    ELSE m)

\* faulty variant: the last of the entries with the smallest minimum leads
RECURSIVE LeaderScanLast(_, _, _)
LeaderScanLast(m, minValue, b) ==
    IF m = <<>> THEN b
    ELSE LET min == MinOf(Head(m).latencies) IN
         IF minValue = null \/ min <= minValue
         THEN LeaderScanLast(Tail(m), min, [key |-> Head(m).key, latency |-> min])
         ELSE LeaderScanLast(Tail(m), minValue, b)

\* the provisional leader of one loop iteration: the first entry with the
\* smallest minimum; an empty map leaves the leader of the iteration before
RECURSIVE LeaderScan(_, _, _)
LeaderScan(m, minValue, b) ==
    IF m = <<>> THEN b
    ELSE LET min == MinOf(Head(m).latencies) IN
         IF minValue = null \/ min < minValue
         THEN LeaderScan(Tail(m), min, [key |-> Head(m).key, latency |-> min])
         ELSE LeaderScan(Tail(m), minValue, b)

Leader(p, results, b) == LeaderScan(GroupByKey(p, results, <<>>), null, b)

\* every leader one iteration of a phase's loop can compute when it starts
\* with none (NoBest when the response has no usable sample)
Leaders == [p \in PolledPhases |-> {Leader(p, rs, NoBest) : rs \in ResultSeqs}]

\* results.push({ country, city, state, minRtt, avgRtt, ... }) of each phase;
\* ctx is the country (measureCities) or state (measureUSCities) argument
ProbeResult(p, ctx, entry) ==
    LET minRtt == MinOf(entry.latencies)
        avgRtt == Average(entry.latencies) IN
    CASE p = "country" -> [country |-> entry.key, city |-> "", state |-> "",
                           minRtt |-> minRtt, avgRtt |-> avgRtt]
      [] p = "state"   -> [country |-> "US", city |-> "", state |-> entry.key,
                           minRtt |-> minRtt, avgRtt |-> avgRtt]
      [] p = "city"    -> [country |-> ctx, city |-> entry.key, state |-> "",
                           minRtt |-> minRtt, avgRtt |-> avgRtt]
      [] OTHER         -> [country |-> "US", city |-> entry.key, state |-> ctx,
                           minRtt |-> minRtt, avgRtt |-> avgRtt]

\* an unstable sort: an element goes before the elements that compare equal
RECURSIVE InsertBeforeEqual(_, _)
InsertBeforeEqual(sorted, x) ==
    IF sorted = <<>> THEN <<x>>
    ELSE IF x.minRtt <= Head(sorted).minRtt THEN <<x>> \o sorted
         ELSE <<Head(sorted)>> \o InsertBeforeEqual(Tail(sorted), x)

\* Array.prototype.sort((a, b) => a.minRtt - b.minRtt): stable, so an element
\* goes after every element that does not compare greater
RECURSIVE InsertByMinRtt(_, _)
InsertByMinRtt(sorted, x) ==
    IF sorted = <<>> THEN <<x>>
    ELSE IF x.minRtt < Head(sorted).minRtt THEN <<x>> \o sorted
         ELSE <<Head(sorted)>> \o InsertByMinRtt(Tail(sorted), x)

\* faulty variant: the results keep the order of the map
KeepMapOrder(list, acc) == acc \o list

RECURSIVE SortByMinRtt(_, _)
SortByMinRtt(list, acc) ==
    IF list = <<>> THEN acc
    ELSE SortByMinRtt(Tail(list), InsertByMinRtt(acc, Head(list)))

\* the ranked list a polled phase returns for its final job state
RankedResults(p, ctx, results) ==
    LET m == GroupByKey(p, results, <<>>) IN
    SortByMinRtt([i \in 1..Len(m) |-> ProbeResult(p, ctx, m[i])], <<>>)

\* an aggregation that goes on with the list of the run before
KeptResults(previous) == previous

\* const results = []: the list a run of the aggregation starts from,
\* whatever a run before it has returned
NewResults(previous) == <<>>

\* the ranked list of a run of the aggregation that follows a run which
\* returned the list previous
RankedAgain(p, ctx, results, previous) ==
    LET m == GroupByKey(p, results, <<>>) IN
    SortByMinRtt([i \in 1..Len(m) |-> ProbeResult(p, ctx, m[i])], NewResults(previous))

-----------------------------------------------------------------------------
(* measureContinents *)

\* latencies.length > 0 ? sum / length : Infinity, over the usable samples
AvgLatency(results) ==
    LET m == GroupByKey("country", results, <<>>)
        latencies == IF m = <<>> THEN <<>> ELSE Head(m).latencies IN
    IF Len(latencies) > 0 THEN Average(latencies) ELSE Infinity

\* every avgLatency a sub-request can compute from an awaitMeasurement response
ContinentAvgs == {AvgLatency(rs) : rs \in ContinentResultSeqs}

\* faulty variant: the first sub-request to return resolves the wait (Promise.race)
AnySettled(s) == \E i \in ContinentIdx : s[i].pc = "done"

\* Promise.all resolves when every sub-request has returned
AllSettled(s) == \A i \in ContinentIdx : s[i].pc = "done"

\* the measurements array: one entry per continent, in CONTINENTS order
Measurements(s) ==
    [i \in ContinentIdx |-> [continent |-> CONTINENTS[i].code, avgLatency |-> s[i].avgLatency]]

\* faulty variant: continents without data are not filtered out
WithDataUnfiltered(ms) == ms

\* .filter(m => m.avgLatency !== Infinity)
RECURSIVE WithData(_)
WithData(ms) ==
    IF ms = <<>> THEN <<>>
    ELSE IF Head(ms).avgLatency # Infinity THEN <<Head(ms)>> \o WithData(Tail(ms))
         ELSE WithData(Tail(ms))

\* .sort((a, b) => a.avgLatency - b.avgLatency), stable
RECURSIVE InsertByAvg(_, _)
InsertByAvg(sorted, x) ==
    IF sorted = <<>> THEN <<x>>
    ELSE IF DoubleLess(x.avgLatency, Head(sorted).avgLatency) THEN <<x>> \o sorted
         ELSE <<Head(sorted)>> \o InsertByAvg(Tail(sorted), x)

RECURSIVE SortByAvg(_, _)
SortByAvg(list, acc) ==
    IF list = <<>> THEN acc
    ELSE SortByAvg(Tail(list), InsertByAvg(acc, Head(list)))

\* faulty variant: the candidates are not sorted
BestCandidatesUnsorted(ms) == WithData(ms)

\* the candidates of `best`: measurements.filter(...).sort(...)
BestCandidates(ms) == SortByAvg(WithData(ms), <<>>)

Magic(code) == CONTINENTS[CHOOSE i \in ContinentIdx : CONTINENTS[i].code = code].magic

SubsInit == [i \in ContinentIdx |-> [pc |-> "create", avgLatency |-> Infinity]]

\* the measurements array is local to measureContinents
SubsReturned == [i \in ContinentIdx |-> [pc |-> "returned", avgLatency |-> Infinity]]

-----------------------------------------------------------------------------
(* runMeasurements *)

\* faulty variant: every non-empty country ranking enters the state phase
EntersStatePhaseAnyCountry(cr) == Len(cr) > 0

\* countryResults.length > 0 && countryResults[0].country === 'US'
EntersStatePhase(cr) == Len(cr) > 0 /\ cr[1].country = "US"

\* countryResults.length > 0
EntersCityPhase(cr) == Len(cr) > 0

\* stateResults.length > 0
EntersUSCityPhase(sr) == Len(sr) > 0

\* faulty variant: an empty state ranking falls back to the country ranking
StateEmptyReturnsCountry(sr, cr) == cr

\* return stateResults
StateEmptyReturn(sr, cr) == sr

\* faulty variant: an empty city ranking falls back to the previous ranking
CityReturnFallsBack(cityResults) ==
    IF cityResults # <<>> THEN cityResults
    ELSE IF phase = "uscity" THEN stateResults ELSE countryResults

\* return cityResults (of measureCities and of measureUSCities)
CityReturn(cityResults) == cityResults

\* return countryResults
CountryEmptyReturn(cr) == cr

\* faulty variant: the loop is left after the first response, whatever its status
LoopExitsOnAnyResponse(status) == TRUE

\* while (true) { ... if (data.status === 'finished') break; ... }
LoopExits(status) == status = "finished"

\* faulty variant: a failed createMeasurement is ignored and the loop entered
CreateFailureIgnoredPc == "poll"

\* if (!createResult.ok) throw new Error('Failed to create measurement: ...')
CreateFailurePc == "failed"

\* faulty variant: a failed getMeasurement is retried after the sleep
GetFailureRetryPc == "sleep"

\* if (!result.ok) throw new Error('Failed to get measurement: ...')
GetFailurePc == "failed"

\* faulty variant: the request is not scoped by the winner of the phase before
UnscopedRequest(p) ==
    [phase |-> p, magic |-> "world", country |-> "", state |-> "", limit |-> DefaultLimit]

\* the locations of the createMeasurement request of a polled phase
RequestOf(p) ==
    CASE p = "country" -> [phase |-> p, magic |-> Magic(continent), country |-> "",
                           state |-> "", limit |-> DefaultLimit]
      [] p = "state"   -> [phase |-> p, magic |-> "united states", country |-> "",
                           state |-> "", limit |-> DefaultLimit]
      [] p = "city"    -> [phase |-> p, magic |-> "", country |-> countryResults[1].country,
                           state |-> "", limit |-> DefaultLimit]
      [] OTHER         -> [phase |-> p, magic |-> "", country |-> "US",
                           state |-> stateResults[1].state, limit |-> DefaultLimit]

\* the country / state argument the city phases copy into their results
Ctx(p) ==
    CASE p = "city"   -> request.country
      [] p = "uscity" -> request.state
      [] OTHER        -> ""

-----------------------------------------------------------------------------
(* The web relay (src/web): the values its state starts from *)

\* the pages served: each has the session id it drew when it loaded, two of
\* them are behind one client address
Pages == {[ip |-> "203.0.113.7", session |-> "s1"],
          [ip |-> "203.0.113.7", session |-> "s2"],
          [ip |-> "198.51.100.9", session |-> "s3"]}

\* the client addresses getClientIp yields
Ips == {p.ip : p \in Pages}

SessionIds == {p.session : p \in Pages}

\* the invocations of the worker's fetch that can be in flight together
Fetches == {"f1", "f2"}

\* this.sessions.get(ip) of an ip without entry
NoEntry == [id |-> "", timestamp |-> null]

\* an invocation slot without request
IdleRequest == [pc |-> "idle"]

\* the worker has not returned a response
NoResponse == [path |-> "", upgrade |-> "", hasSession |-> FALSE, status |-> 0]

\* handleCommand has not called runMeasurements
NoRun == [ip |-> "", limit |-> null]

-----------------------------------------------------------------------------
(* Actions *)

\* no call of extractLatencyFromTraceroute is specified on its own
ExtractIdle ==
    /\ sample = [status |-> "none"]
    /\ returned = FALSE
    /\ extracted = null

AggIdle ==
    /\ aggInput = [phase |-> "", ctx |-> "", results |-> <<>>]
    /\ aggReturned = FALSE
    /\ aggRanked = <<>>
    /\ aggAgain = FALSE

FrontIdle ==
    /\ frontInput = [thrown |-> FALSE, results |-> <<>>]
    /\ cliPc = "idle"
    /\ cliOut = <<>>
    /\ wsPc = "idle"
    /\ wsOut = <<>>

\* the rate limiter after its constructor, and no request at the worker
LimiterIdle ==
    /\ sessions = [ip \in Ips |-> NoEntry]
    /\ now = 0
    /\ requests = [f \in Fetches |-> IdleRequest]
    /\ response = NoResponse
    /\ active = {}

\* no call of the server's handleCommand is specified on its own
CmdIdle ==
    /\ cmdInput = <<>>
    /\ cmdPc = "idle"
    /\ cmdOut = <<>>
    /\ cmdRun = NoRun

\* a WebSocket connection of the server when its handlers are registered
ConnIdle ==
    /\ busy = FALSE
    /\ inputBuffer = <<>>
    /\ chunkRest = <<>>
    /\ inProgress = 0
    /\ sent = 0
    /\ received = 0
    /\ discarded = 0
    /\ closed = FALSE

WebIdle == LimiterIdle /\ CmdIdle /\ ConnIdle

\* the entry of runMeasurements
RunInit ==
    /\ pc = "continents"
    /\ phase = "continent"
    /\ subs = SubsInit
    /\ continent = ""
    /\ jobs = [p \in PolledPhases |-> "none"]
    /\ best = NoBest
    /\ data = NoData
    /\ request = NoRequest
    /\ countryResults = <<>>
    /\ stateResults = <<>>
    /\ result = <<>>
    /\ error = ""
    /\ callFailed = FALSE
    /\ limitsRequested = 0

Init == RunInit /\ ExtractIdle /\ AggIdle /\ FrontIdle /\ WebIdle

\* the response to client.createMeasurement of continent sub-request i
SubCreate(i) ==
    /\ pc = "continents"
    /\ subs[i].pc = "create"
    /\ \E ok \in BOOLEAN :
         /\ subs' = [subs EXCEPT ![i] =
                       IF ok THEN [pc |-> "await", avgLatency |-> Infinity]
                       ELSE [pc |-> "done", avgLatency |-> Infinity]]
         /\ callFailed' = (callFailed \/ ~ok)
    /\ limitsRequested' = limitsRequested + ContinentLimit
    /\ UNCHANGED <<pc, phase, continent, jobs, best, data, request,
                   countryResults, stateResults, result, error>>
    /\ UNCHANGED unitVars

\* the response to client.awaitMeasurement of continent sub-request i
SubAwait(i) ==
    /\ pc = "continents"
    /\ subs[i].pc = "await"
    /\ \/ /\ subs' = [subs EXCEPT ![i] = [pc |-> "done", avgLatency |-> Infinity]]
          /\ callFailed' = TRUE
       \/ /\ \E avg \in ContinentAvgs :
               subs' = [subs EXCEPT ![i] = [pc |-> "done", avgLatency |-> avg]]
          /\ UNCHANGED callFailed
    /\ UNCHANGED <<pc, phase, continent, jobs, best, data, request,
                   countryResults, stateResults, result, error, limitsRequested>>
    /\ UNCHANGED unitVars

\* Promise.all resolved: measureContinents picks best and returns or throws
ContinentsJoin ==
    /\ pc = "continents"
    /\ AllSettled(subs)
    /\ LET cands == BestCandidates(Measurements(subs)) IN
       IF cands = <<>>
       THEN /\ pc' = "failed"
            /\ error' = NoContinentData
            /\ UNCHANGED <<phase, continent>>
       ELSE /\ pc' = "create"
            /\ phase' = "country"
            /\ continent' = cands[1].continent
            /\ UNCHANGED error
    /\ UNCHANGED <<subs, jobs, best, data, request, countryResults, stateResults, result,
                   callFailed, limitsRequested>>
    /\ UNCHANGED unitVars

\* the response to client.createMeasurement of a polled phase
CreateMeasurement ==
    /\ pc = "create"
    /\ request' = RequestOf(phase)
    /\ limitsRequested' = limitsRequested + RequestOf(phase).limit
    /\ best' = NoBest
    /\ data' = NoData
    /\ subs' = SubsReturned
    /\ continent' = ""
    /\ \/ /\ jobs' = [jobs EXCEPT ![phase] = "in-progress"]
          /\ pc' = "poll"
          /\ UNCHANGED <<error, callFailed>>
       \/ /\ jobs' = [jobs EXCEPT ![phase] = "createFailed"]
          /\ pc' = CreateFailurePc
          /\ error' = IF CreateFailurePc = "failed" THEN CreateFailed ELSE error
          /\ callFailed' = TRUE
    /\ UNCHANGED <<phase, countryResults, stateResults, result>>
    /\ UNCHANGED unitVars

\* a failed response to client.getMeasurement
GetMeasurementFails ==
    /\ pc = "poll"
    /\ jobs' = [jobs EXCEPT ![phase] = "getFailed"]
    /\ pc' = GetFailurePc
    /\ error' = IF GetFailurePc = "failed" THEN GetFailed ELSE error
    /\ callFailed' = TRUE
    /\ UNCHANGED <<phase, subs, continent, best, data, request,
                   countryResults, stateResults, result, limitsRequested>>
    /\ UNCHANGED unitVars

\* one loop iteration whose status keeps the loop going
GetMeasurementPending ==
    /\ pc = "poll"
    /\ \E status \in JobStatuses, l \in Leaders[phase] :
         /\ ~LoopExits(status)
         /\ jobs' = [jobs EXCEPT ![phase] = status]
         /\ best' = IF l = NoBest THEN best ELSE l
    /\ pc' = "sleep"
    /\ UNCHANGED <<phase, subs, continent, data, request,
                   countryResults, stateResults, result, error, callFailed, limitsRequested>>
    /\ UNCHANGED unitVars

\* the loop iteration that leaves the loop, the aggregation after it, and
\* runMeasurements up to its next service call or its return
GetMeasurementFinal ==
    /\ pc = "poll"
    /\ \E status \in JobStatuses, rs \in ResultSeqs :
         LET sorted == RankedResults(phase, Ctx(phase), rs) IN
         /\ LoopExits(status)
         /\ jobs' = [jobs EXCEPT ![phase] = status]
         /\ best' = Leader(phase, rs, best)
         /\ data' = [status |-> status, results |-> rs]
         /\ CASE phase = "country" ->
                   /\ countryResults' = sorted
                   /\ IF EntersStatePhase(sorted)
                      THEN pc' = "create" /\ phase' = "state" /\ UNCHANGED result
                      ELSE IF EntersCityPhase(sorted)
                      THEN pc' = "create" /\ phase' = "city" /\ UNCHANGED result
                      ELSE pc' = "done" /\ result' = CountryEmptyReturn(sorted)
                           /\ UNCHANGED phase
                   /\ UNCHANGED stateResults
              [] phase = "state" ->
                   /\ stateResults' = sorted
                   /\ IF EntersUSCityPhase(sorted)
                      THEN pc' = "create" /\ phase' = "uscity" /\ UNCHANGED result
                      ELSE pc' = "done" /\ result' = StateEmptyReturn(sorted, countryResults)
                           /\ UNCHANGED phase
                   /\ UNCHANGED countryResults
              [] OTHER ->
                   /\ pc' = "done"
                   /\ result' = CityReturn(sorted)
                   /\ UNCHANGED <<phase, countryResults, stateResults>>
    /\ UNCHANGED <<subs, continent, request, error, callFailed, limitsRequested>>
    /\ UNCHANGED unitVars

\* await sleep(1000)
Sleep ==
    /\ pc = "sleep"
    /\ pc' = "poll"
    /\ UNCHANGED <<phase, subs, continent, jobs, best, data, request,
                   countryResults, stateResults, result, error, callFailed, limitsRequested>>
    /\ UNCHANGED unitVars

Next ==
    \/ \E i \in ContinentIdx : SubCreate(i)
    \/ \E i \in ContinentIdx : SubAwait(i)
    \/ ContinentsJoin
    \/ CreateMeasurement
    \/ GetMeasurementFails
    \/ GetMeasurementPending
    \/ GetMeasurementFinal
    \/ Sleep

Spec == Init /\ [][Next]_vars

-----------------------------------------------------------------------------
(* Properties of runMeasurements *)

\* the first entry of the country ranking is US
USWins ==
    /\ jobs["country"] = "finished"
    /\ countryResults # <<>>
    /\ countryResults[1].country = "US"

\* C1: measureUSStates is entered if and only if the country phase returned a
\* non-empty ranking whose first country is US; with any other winner the run
\* goes from the country phase to measureCities, scoped to that winner, and
\* no state measurement is created.
C1_StatePhaseIffUSWins ==
    /\ (phase \in {"state", "uscity"} \/ jobs["state"] # "none") <=> USWins
    /\ (jobs["country"] = "finished" /\ countryResults # <<>> /\ ~USWins) =>
          /\ phase = "city"
          /\ jobs["state"] = "none" /\ jobs["uscity"] = "none"
          /\ jobs["city"] # "none" =>
                (request.phase = "city" /\ request.country = countryResults[1].country)
    /\ jobs["city"] # "none" => countryResults # <<>> /\ ~USWins

C1_Witness ==
    /\ jobs["state"] = "in-progress"
    /\ countryResults[1].country = "US"
    /\ Len(countryResults) = 2

\* C2: when none of the six continent sub-requests yields a usable latency
\* the run fails with 'No successful measurements from any continent' and no
\* country, state or city measurement is created.
C2_NoContinentDataFails ==
    /\ (pc # "continents" /\ AllSettled(subs)
          /\ \A i \in ContinentIdx : subs[i].avgLatency = Infinity) =>
          /\ pc = "failed"
          /\ error = NoContinentData
          /\ result = <<>>
    /\ error = NoContinentData =>
          /\ \A p \in PolledPhases : jobs[p] = "none"
          /\ request = NoRequest
          /\ \A i \in ContinentIdx : subs[i].avgLatency = Infinity

C2_Witness ==
    /\ pc = "failed"
    /\ error = NoContinentData
    /\ ~callFailed

\* C3: the loop of a polled phase is left as soon as a response reports a
\* top-level status other than in-progress, whatever that status is.
C3_LoopLeftOnAnyTerminalStatus ==
    \A p \in PolledPhases :
        (jobs[p] \in JobStatuses \ {"in-progress"}) => ~(phase = p /\ pc \in {"sleep", "poll"})

FailedStatuses == {"createFailed", "getFailed"}

TerminalStatuses == JobStatuses \ {"in-progress"}

C5_NoRetry ==
    [][ /\ \A p \in PolledPhases : jobs[p] \notin FailedStatuses
        /\ \A i \in ContinentIdx :
              subs[i].pc = "done" => (subs'[i] = subs[i] \/ subs'[i].pc = "returned")
      ]_vars

C5_Witness ==
    /\ jobs["state"] = "getFailed"
    /\ pc = "failed"
    /\ error = GetFailed

\* C6: when the state phase yields no candidate, runMeasurements returns that
\* phase's empty list, creates no city measurement, and does not return the
\* country ranking in its place.
C6_EmptyStateListReturned ==
    (jobs["state"] = "finished" /\ stateResults = <<>>) =>
        /\ pc = "done"
        /\ error = ""
        /\ result = <<>>
        /\ result # countryResults
        /\ jobs["uscity"] = "none" /\ jobs["city"] = "none"

C6_Witness ==
    /\ pc = "done"
    /\ jobs["state"] = "finished"
    /\ stateResults = <<>>
    /\ data.results # <<>>

\* the ranking of the phase before phase p
PreviousResults(p) == IF p = "uscity" THEN stateResults ELSE countryResults

\* C7 as stated: when the state or city phase yields no candidate, the run
\* returns what the previous phase produced.
C7_ReturnsPreviousPhase ==
    (pc = "done" /\ phase \in {"state", "city", "uscity"}
       /\ RankedResults(phase, Ctx(phase), data.results) = <<>>) =>
        result = PreviousResults(phase)

\* C7 amended: when the country, state or city phase yields no candidate the
\* run does not fail: it creates no further measurement and returns that
\* phase's own empty list, not what the previous phase produced.
C7_ReturnsOwnEmptyList ==
    \A p \in PolledPhases :
        (jobs[p] = "finished" /\ phase = p
           /\ RankedResults(p, Ctx(p), data.results) = <<>>) =>
            /\ pc = "done"
            /\ error = ""
            /\ result = <<>>
            /\ \A q \in PolledPhases : jobs[q] \in {"none", "finished"}
            /\ p = "country" => \A q \in PolledPhases \ {p} : jobs[q] = "none"
            /\ p = "state" => jobs["city"] = "none" /\ jobs["uscity"] = "none"

C7_Witness ==
    /\ pc = "done"
    /\ phase = "uscity"
    /\ result = <<>>
    /\ stateResults # <<>>
    /\ data.status = "finished"

\* C8: the phases run one after the other: the job of the country, state or
\* city phase is created only after every continent sub-request has returned
\* and the job of the phase before it was seen in a terminal status and
\* ranked, at most one such job is in flight, and a job in flight keeps the
\* run in its own polling loop.
C8_PhasesSequential ==
    /\ \A p \in PolledPhases :
          jobs[p] = "in-progress" => (phase = p /\ pc \in {"poll", "sleep"})
    /\ Cardinality({p \in PolledPhases : jobs[p] = "in-progress"}) <= 1
    /\ (\E p \in PolledPhases : jobs[p] # "none") =>
          \A i \in ContinentIdx : subs[i].pc \notin {"create", "await"}
    /\ jobs["state"] # "none" =>
          (jobs["country"] \in TerminalStatuses /\ countryResults # <<>>)
    /\ jobs["city"] # "none" =>
          (jobs["country"] \in TerminalStatuses /\ countryResults # <<>>)
    /\ jobs["uscity"] # "none" =>
          (jobs["state"] \in TerminalStatuses /\ stateResults # <<>>)
    /\ pc = "done" =>
          \A p \in PolledPhases : jobs[p] \in TerminalStatuses \cup {"none"}

C8_Witness ==
    /\ jobs["country"] = "finished"
    /\ jobs["state"] = "finished"
    /\ jobs["uscity"] = "in-progress"
    /\ pc = "sleep"

\* the continents with data whose average no other continent's average beats
\* and which come first in CONTINENTS among the continents tied with them
ExpectedWinners ==
    { i \in ContinentIdx :
        /\ subs[i].avgLatency # Infinity
        /\ \A j \in ContinentIdx :
              subs[j].avgLatency # Infinity =>
                 \/ DoubleLess(subs[i].avgLatency, subs[j].avgLatency)
                 \/ (subs[i].avgLatency = subs[j].avgLatency /\ i <= j) }

\* C9: the continent winner is computed only after all six sub-requests have
\* returned, and it is a function of the six averages alone (the least
\* average, the first in CONTINENTS among equals), whatever the order in
\* which the sub-requests completed.
C9_WinnerAfterJoin ==
    continent # "" =>
        /\ \A i \in ContinentIdx : subs[i].pc = "done"
        /\ \E i \in ExpectedWinners : continent = CONTINENTS[i].code
        /\ Cardinality(ExpectedWinners) = 1

C9_Witness ==
    /\ continent = "AS"
    /\ subs[2].avgLatency = subs[5].avgLatency
    /\ subs[1].avgLatency = Infinity
    /\ \A j \in {3, 4, 6} : DoubleLess(subs[2].avgLatency, subs[j].avgLatency)
    /\ subs[6].avgLatency # Infinity

\* the example run of the README, in CONTINENTS order
ReadmeMeasurements ==
    << [continent |-> "AF", avgLatency |-> ToDouble(257460)],
       [continent |-> "AS", avgLatency |-> ToDouble(167030)],
       [continent |-> "EU", avgLatency |-> ToDouble(123120)],
       [continent |-> "NA", avgLatency |-> ToDouble(57230)],
       [continent |-> "OC", avgLatency |-> ToDouble(172490)],
       [continent |-> "SA", avgLatency |-> ToDouble(93960)] >>

\* C10: the continent measureContinents returns has at least one usable
\* sample and an average that no continent with data undercuts; a continent
\* without data is never returned; the README's six averages select NA.
C10_WinnerHasLeastAverage ==
    /\ continent # "" =>
          \E w \in ContinentIdx :
              /\ continent = CONTINENTS[w].code
              /\ subs[w].avgLatency # Infinity
              /\ \A j \in ContinentIdx : ~DoubleLess(subs[j].avgLatency, subs[w].avgLatency)
    /\ BestCandidates(ReadmeMeasurements)[1].continent = "NA"

C10_Witness ==
    /\ continent = "OC"
    /\ subs[1].avgLatency = Infinity
    /\ subs[2].avgLatency # Infinity
    /\ DoubleLess(subs[5].avgLatency, subs[2].avgLatency)
    /\ subs[5].avgLatency = Mean(<<1000, 2000>>)

-----------------------------------------------------------------------------
(* extractLatencyFromTraceroute on its own: one call on any item.result *)

\* most hops of a traceroute result
MaxHops == 3

\* the rtts of one hop's timings: none, packets without response (0 or
\* negative), responses
TimingSeqs == {<<>>, <<0>>, <<-3>>, <<1>>, <<2, 1>>, <<0, 2>>, <<-3, 0>>}

\* a hop, with or without its timings
Hops == {[resolvedHostname |-> "*"]} \cup [timings : TimingSeqs]

HopSeqs == UNION {[1..n -> Hops] : n \in 0..MaxHops}

SampleStatuses == {"finished", "in-progress", "failed"}

\* item.result, with or without its hops
Samples == [status : SampleStatuses] \cup [status : SampleStatuses, hops : HopSeqs]

ExtractInit ==
    /\ RunInit
    /\ AggIdle
    /\ FrontIdle
    /\ WebIdle
    /\ sample \in Samples
    /\ returned = FALSE
    /\ extracted = null

\* const latency = extractLatencyFromTraceroute(item.result)
Extract ==
    /\ ~returned
    /\ returned' = TRUE
    /\ extracted' = extractLatencyFromTraceroute(sample)
    /\ UNCHANGED <<runVars, sample, aggVars, frontVars, webVars>>

ExtractNext == Extract

ExtractSpec == ExtractInit /\ [][ExtractNext]_vars

\* hop i (counted from 1) of the sample reports a positive timing
PositiveAt(i) ==
    /\ "timings" \in DOMAIN sample.hops[i]
    /\ \E k \in 1..Len(sample.hops[i].timings) : sample.hops[i].timings[k] > 0

\* C11: a finished sample none of whose hops at index 2 or higher (the third
\* hop onward) reports a positive timing yields no value, even when hop 0 or
\* hop 1 reports positive timings.
C11_NullWithoutHopFromIndex2 ==
    (returned /\ sample.status = "finished" /\ "hops" \in DOMAIN sample
       /\ ~\E i \in 3..Len(sample.hops) : PositiveAt(i)) =>
        extracted = null

\* C12: a value the extractor returns is the least of the strictly positive
\* timings of the last hop that has a strictly positive timing: zero and
\* negative timings never contribute, and the hops after that hop, which
\* have no positive timing, are skipped.
C12_MinPositiveOfLastRespondingHop ==
    (returned /\ extracted # null) =>
        /\ sample.status = "finished"
        /\ extracted > 0
        /\ \E h \in 1..Len(sample.hops) :
              /\ PositiveAt(h)
              /\ \A j \in (h + 1)..Len(sample.hops) : ~PositiveAt(j)
              /\ \E k \in 1..Len(sample.hops[h].timings) :
                    sample.hops[h].timings[k] = extracted
              /\ \A k \in 1..Len(sample.hops[h].timings) :
                    sample.hops[h].timings[k] > 0 => extracted <= sample.hops[h].timings[k]

C12_Witness ==
    /\ returned
    /\ extracted = 2
    /\ Len(sample.hops) = 3
    /\ sample.hops[1] = [timings |-> <<1>>]
    /\ sample.hops[2] = [timings |-> <<0, 2>>]
    /\ sample.hops[3] = [timings |-> <<-3, 0>>]

\* C13: the extractor returns no value for every sample whose status is not
\* finished and for every sample without hops, whatever timings it carries.
C13_NullUnlessFinishedWithHops ==
    (returned /\ (sample.status # "finished" \/ "hops" \notin DOMAIN sample
                    \/ sample.hops = <<>>)) =>
        extracted = null

C13_Witness ==
    /\ returned
    /\ sample.status = "in-progress"
    /\ "hops" \in DOMAIN sample
    /\ Len(sample.hops) = 3
    /\ PositiveAt(3)
    /\ extracted = null

-----------------------------------------------------------------------------
(* The aggregation after a phase's loop, on its own *)

\* most items of the final job state
MaxGroup == 4

\* probe results of the final job state: two usable samples of a probe in
\* Miami, one of a probe with no state and city, one in Dallas, one in
\* Berlin, and a probe in Miami that did not finish
AggItems ==
    { [probe |-> [country |-> "US", state |-> "FL", city |-> "Miami"], result |-> FinishedResult(183)],
      [probe |-> [country |-> "US", state |-> "FL", city |-> "Miami"], result |-> FinishedResult(1000)],
      [probe |-> [country |-> "CA", state |-> "", city |-> ""], result |-> FinishedResult(183)],
      [probe |-> [country |-> "US", state |-> "TX", city |-> "Dallas"], result |-> FinishedResult(1000)],
      [probe |-> [country |-> "DE", state |-> "", city |-> "Berlin"], result |-> FinishedResult(2000)],
      [probe |-> [country |-> "US", state |-> "FL", city |-> "Miami"], result |-> PendingResult] }

AggResponses == UNION {[1..n -> AggItems] : n \in 0..MaxGroup}

\* the country argument of measureCities, the state argument of measureUSCities
AggContext(p) ==
    CASE p = "city" -> "DE"
      [] p = "uscity" -> "FL"
      [] OTHER -> ""

AggInit ==
    /\ RunInit
    /\ ExtractIdle
    /\ FrontIdle
    /\ WebIdle
    /\ \E p \in PolledPhases, rs \in AggResponses :
           aggInput = [phase |-> p, ctx |-> AggContext(p), results |-> rs]
    /\ aggReturned = FALSE
    /\ aggRanked = <<>>
    /\ aggAgain = FALSE

\* the code of a polled phase from the end of its loop to its return
Aggregate ==
    /\ ~aggReturned
    /\ aggReturned' = TRUE
    /\ aggRanked' = RankedResults(aggInput.phase, aggInput.ctx, aggInput.results)
    /\ UNCHANGED <<runVars, extractVars, aggInput, aggAgain, frontVars, webVars>>

AggNext == Aggregate

AggSpec == AggInit /\ [][AggNext]_vars

\* the field of a candidate that holds its grouping key
CandidateKey(p, c) ==
    CASE p = "country" -> c.country
      [] p = "state" -> c.state
      [] OTHER -> c.city

\* the usable samples of the key k, in the order of data.results
SamplesOfKey(p, results, k) ==
    LET usable == SelectSeq(results, LAMBDA item :
                      /\ extractLatencyFromTraceroute(item.result) # null
                      /\ KeyOf(p, item.probe) = k) IN
    [i \in 1..Len(usable) |-> extractLatencyFromTraceroute(usable[i].result)]

-----------------------------------------------------------------------------
(* The ranked lists of a run *)

\* the list the phase of the latest final job state returned to runMeasurements
ReturnedList ==
    CASE request.phase = "country" -> countryResults
      [] request.phase = "state" -> stateResults
      [] OTHER -> result

\* the keys the probes of the model can have in phase p
KeysOf(p) == {KeyOf(p, probe) : probe \in Probes}

\* the README's country response: Canada 42.96 ms, United States 0.01 ms and
\* a second, slower sample of the United States
ReadmeCountryResults ==
    << [probe |-> [country |-> "CA", state |-> "", city |-> ""], result |-> FinishedResult(42960)],
       [probe |-> [country |-> "US", state |-> "FL", city |-> "Miami"], result |-> FinishedResult(10)],
       [probe |-> [country |-> "US", state |-> "FL", city |-> "Miami"], result |-> FinishedResult(20)] >>

ReadmeCountryRanking == RankedResults("country", "", ReadmeCountryResults)

\* C15: the candidates of measureContinents are in non-decreasing order of
\* avgLatency, one per continent with a usable sample and none for the
\* others; the list a polled phase returns is in non-decreasing order of
\* minRtt, with one candidate per key that has a usable sample in the final
\* job state and none for any other key; the samples US 0.01, 0.02 and
\* CA 42.96 rank US first with minRtt 0.01.
C15_RankedLists ==
    /\ (pc = "continents" /\ \A i \in ContinentIdx : subs[i].pc = "done") =>
          LET l == BestCandidates(Measurements(subs)) IN
          /\ \A i \in 1..(Len(l) - 1) : ~DoubleLess(l[i + 1].avgLatency, l[i].avgLatency)
          /\ \A c \in ContinentIdx :
                Cardinality({i \in 1..Len(l) : l[i].continent = CONTINENTS[c].code})
                    = IF subs[c].avgLatency # Infinity THEN 1 ELSE 0
    /\ data # NoData =>
          LET p == request.phase
              l == ReturnedList IN
          /\ \A i \in 1..(Len(l) - 1) : l[i].minRtt <= l[i + 1].minRtt
          /\ \A i \in 1..Len(l) : CandidateKey(p, l[i]) \in KeysOf(p)
          /\ \A k \in KeysOf(p) :
                Cardinality({i \in 1..Len(l) : CandidateKey(p, l[i]) = k})
                    = IF SamplesOfKey(p, data.results, k) # <<>> THEN 1 ELSE 0
    /\ Len(ReadmeCountryRanking) = 2
    /\ ReadmeCountryRanking[1].country = "US"
    /\ ReadmeCountryRanking[1].minRtt = 10
    /\ ReadmeCountryRanking[2].country = "CA"

\* the country phase returned US before CA although CA came first in the
\* final job state
C15_Witness ==
    /\ request.phase = "country"
    /\ data.status = "finished"
    /\ Len(data.results) = 2
    /\ data.results[1].probe.country = "CA"
    /\ data.results[2].probe.country = "US"
    /\ Len(countryResults) = 2
    /\ countryResults[1].country = "US"
    /\ countryResults[1].minRtt < countryResults[2].minRtt

-----------------------------------------------------------------------------
(* The requests of a run *)

\* a final job state of a city phase with one usable sample in each of four
\* cities
FourCityResults ==
    << [probe |-> [country |-> "DE", state |-> "", city |-> "Berlin"], result |-> FinishedResult(2000)],
       [probe |-> [country |-> "DE", state |-> "", city |-> "Munich"], result |-> FinishedResult(1000)],
       [probe |-> [country |-> "DE", state |-> "", city |-> "Hamburg"], result |-> FinishedResult(183)],
       [probe |-> [country |-> "DE", state |-> "", city |-> ""], result |-> FinishedResult(3000)] >>

FourCityRanking == RankedResults("city", "DE", FourCityResults)

\* l[1] has the lowest minRtt of the ranking l
FirstIsLowest(l) == \A i \in 1..Len(l) : l[1].minRtt <= l[i].minRtt

\* C16: the createMeasurement request measureCountries is about to send
\* names the continent measureContinents selected (one with data whose
\* average no other continent undercuts) and no country or state; the request
\* of measureCities names the first, and lowest-minRtt, country of the country
\* ranking; the request of measureUSCities names country US and the first,
\* and lowest-minRtt, state of the state ranking; a city phase returns every
\* candidate of its final job state (four cities give four candidates).
C16_RequestScope ==
    /\ (pc = "create" /\ phase = "country") =>
          /\ RequestOf(phase).country = "" /\ RequestOf(phase).state = ""
          /\ \E w \in ContinentIdx :
                /\ RequestOf(phase).magic = CONTINENTS[w].magic
                /\ subs[w].avgLatency # Infinity
                /\ \A j \in ContinentIdx : ~DoubleLess(subs[j].avgLatency, subs[w].avgLatency)
    /\ request.phase = "country" =>
          /\ request.country = "" /\ request.state = ""
          /\ \E w \in ContinentIdx : request.magic = CONTINENTS[w].magic
    /\ request.phase = "city" =>
          /\ request.magic = "" /\ request.state = ""
          /\ request.country = countryResults[1].country
          /\ FirstIsLowest(countryResults)
    /\ request.phase = "uscity" =>
          /\ request.magic = ""
          /\ request.country = "US"
          /\ request.state = stateResults[1].state
          /\ FirstIsLowest(stateResults)
    /\ (pc = "done" /\ phase \in {"city", "uscity"}) =>
          /\ Len(result) = Cardinality({k \in KeysOf(phase) :
                                          SamplesOfKey(phase, data.results, k) # <<>>})
          /\ \A i \in 1..Len(result) :
                SamplesOfKey(phase, data.results, CandidateKey(phase, result[i])) # <<>>
    /\ Len(FourCityRanking) = 4
    /\ FourCityRanking[1].city = "Hamburg"
    /\ FourCityRanking[4].city = "Unknown"

\* the US city request after a state ranking of two states, and the two
\* cities the phase returned
C16_Witness ==
    /\ pc = "done"
    /\ Len(stateResults) = 2
    /\ stateResults[1].state = "FL"
    /\ request.phase = "uscity"
    /\ request.country = "US"
    /\ request.state = "FL"
    /\ Len(result) = 2

-----------------------------------------------------------------------------
(* The probes a run asks for *)

\* README: "USA has 4 phases. All other countries have 3 phases."
PhasesUS == 4
PhasesOther == 3

\* README: "+30 for continent selection in phase 1"
ContinentSelection == 30

\* C17: a run that returned from the US city phase has requested
\* PhasesUS * limit + 30 probes in all (230 with the default limit), a run
\* that returned from the city phase of another country
\* PhasesOther * limit + 30 (180 with the default limit).
C17_TotalLimits ==
    /\ (pc = "done" /\ phase = "uscity") =>
          limitsRequested = PhasesUS * DefaultLimit + ContinentSelection
    /\ (pc = "done" /\ phase = "city") =>
          limitsRequested = PhasesOther * DefaultLimit + ContinentSelection

-----------------------------------------------------------------------------
(* The front ends: index.ts main and server.ts handleCommand *)

\* most candidates of the list runMeasurements returns to a front end
MaxResults == 4

\* the minRtt (thousandths of a ms) of the candidates of that list
FrontRtts == {999, 1000, 4999, 5000, 19999, 20000}

\* a candidate of the list; isAnycast is an optional field
FrontFlags == {"absent", "false", "true"}

Candidate(m, f) ==
    IF f = "absent" THEN [minRtt |-> m] ELSE [minRtt |-> m, isAnycast |-> (f = "true")]

\* the minRtt of the lists of n candidates runMeasurements can return: sorted
SortedRtts(n) ==
    {r \in [1..n -> FrontRtts] : \A i \in 1..(n - 1) : r[i] <= r[i + 1]}

\* the flags of a list of n candidates; only the first candidate's flag is
\* read, so an explicit false is given to the first only
FlagsOf(n) == {f \in [1..n -> FrontFlags] : \A i \in 2..n : f[i] # "false"}

FrontLists ==
    UNION {{[i \in 1..n |-> Candidate(r[i], f[i])] : r \in SortedRtts(n), f \in FlagsOf(n)} :
              n \in 0..MaxResults}

\* runMeasurements returned a list or threw
FrontInputs == [thrown : {FALSE}, results : FrontLists] \cup {[thrown |-> TRUE, results |-> <<>>]}

\* results[0].isAnycast as a condition
IsAnycast(r) == "isAnycast" \in DOMAIN r /\ r.isAnycast

\* a line of output; rank is the position the line reports, 0 when none
Line(text, rank) == [text |-> text, rank |-> rank]

\* Math.min(3, results.length)
TopShown == 3
TopCount(results) == IF TopShown < Len(results) THEN TopShown ELSE Len(results)

\* the bounds of the confidence classes, in ms
VeryHighBelow == 1
HighBelow == 5
MediumBelow == 20

\* faulty variant: the bounds belong to the class below them
ConfidenceInclusive(minRtt) ==
    IF minRtt <= VeryHighBelow * RttScale THEN "  Confidence: Very High"
    ELSE IF minRtt <= HighBelow * RttScale THEN "  Confidence: High"
    ELSE IF minRtt <= MediumBelow * RttScale THEN "  Confidence: Medium"
    ELSE "  Confidence: Low"

\* index.ts printResults: if (best.minRtt < 1) ... else if ... else
CliConfidence(minRtt) ==
    IF minRtt < VeryHighBelow * RttScale THEN "  Confidence: Very High"
    ELSE IF minRtt < HighBelow * RttScale THEN "  Confidence: High"
    ELSE IF minRtt < MediumBelow * RttScale THEN "  Confidence: Medium"
    ELSE "  Confidence: Low"

\* server.ts printResults: if (best.minRtt < 1) ... else if ... else
WsConfidence(minRtt) ==
    IF minRtt < VeryHighBelow * RttScale THEN "  Confidence: Very High"
    ELSE IF minRtt < HighBelow * RttScale THEN "  Confidence: High"
    ELSE IF minRtt < MediumBelow * RttScale THEN "  Confidence: Medium"
    ELSE "  Confidence: Low"

\* the lines of printResults but for the confidence line and the closing rule
ResultLines(results) ==
    << Line("Top 3 Locations:", 0), Line("---", 0) >>
    \o [i \in 1..TopCount(results) |-> Line("location", i)]
    \o << Line("", 0), Line("===", 0), Line("SUMMARY", 0), Line("===", 0),
          Line("  Location:", 1), Line("  Minimum Latency:", 1) >>

\* index.ts printResults
CliPrintResults(results) ==
    IF Len(results) = 0 THEN << Line("No results to display", 0) >>
    ELSE ResultLines(results)
         \o << Line(CliConfidence(results[1].minRtt), 0), Line("===", 0) >>

\* server.ts printResults
WsPrintResults(results) ==
    IF Len(results) = 0 THEN << Line("No results to display", 0) >>
    ELSE ResultLines(results)
         \o << Line(WsConfidence(results[1].minRtt), 0), Line("===", 0) >>

\* faulty variant: main prints whatever the winner is
CliNeverSkips(results) == FALSE

\* index.ts main: if (results.length > 0 && results[0].isAnycast) process.exit(0)
CliSkips(results) == Len(results) > 0 /\ IsAnycast(results[1])

\* server.ts handleCommand: if (results.length > 0 && !results[0].isAnycast)
WsPrints(results) == Len(results) > 0 /\ ~IsAnycast(results[1])

FrontInit ==
    /\ RunInit
    /\ ExtractIdle
    /\ AggIdle
    /\ WebIdle
    /\ frontInput \in FrontInputs
    /\ cliPc = "await"
    /\ cliOut = <<>>
    /\ wsPc = "await"
    /\ wsOut = <<>>

\* index.ts main from the return of runMeasurements to process.exit
CliMain ==
    /\ cliPc = "await"
    /\ IF frontInput.thrown
       THEN cliOut' = << Line("Error:", 0) >> /\ cliPc' = "exit1"
       ELSE IF CliSkips(frontInput.results)
       THEN cliOut' = <<>> /\ cliPc' = "exit0"
       ELSE cliOut' = CliPrintResults(frontInput.results) /\ cliPc' = "exit0"
    /\ UNCHANGED <<runVars, extractVars, aggVars, frontInput, wsPc, wsOut, webVars>>

\* server.ts handleCommand from the return of runMeasurements to the prompt
WsHandleCommand ==
    /\ wsPc = "await"
    /\ wsOut' = (IF frontInput.thrown THEN << Line("Error:", 0) >>
                 ELSE IF WsPrints(frontInput.results) THEN WsPrintResults(frontInput.results)
                 ELSE <<>>)
                \o << Line("", 0), Line("PROMPT", 0) >>
    /\ wsPc' = "prompt"
    /\ UNCHANGED <<runVars, extractVars, aggVars, frontInput, cliPc, cliOut, webVars>>

FrontNext == CliMain \/ WsHandleCommand

FrontSpec == FrontInit /\ [][FrontNext]_vars

\* the lines of out whose text is in texts
LinesOf(out, texts) == SelectSeq(out, LAMBDA line : line.text \in texts)

ConfidenceLines ==
    {"  Confidence: Very High", "  Confidence: High", "  Confidence: Medium", "  Confidence: Low"}

\* the label of a winner of minRtt m thousandths of a ms, bound by bound
LabelOf(m) ==
    IF m < 1000 THEN "  Confidence: Very High"
    ELSE IF m < 5000 THEN "  Confidence: High"
    ELSE IF m < 20000 THEN "  Confidence: Medium"
    ELSE "  Confidence: Low"

\* a front end has written a summary
Summarised(out) == Len(LinesOf(out, {"SUMMARY"})) > 0

\* C18: a summary a front end writes has exactly one confidence line: Very
\* High for a winner below 1 ms, High from 1 ms to below 5 ms, Medium from
\* 5 ms to below 20 ms, Low from 20 ms on, whatever the other candidates
\* are; main and handleCommand write the same line, and both write a summary
\* for every non-empty list whose winner is not flagged as anycast.
C18_ConfidenceLabel ==
    /\ \A out \in {cliOut, wsOut} :
          Summarised(out) =>
              LinesOf(out, ConfidenceLines)
                  = << Line(LabelOf(frontInput.results[1].minRtt), 0) >>
    /\ (cliPc = "exit0" /\ wsPc = "prompt") =>
          /\ LinesOf(cliOut, ConfidenceLines) = LinesOf(wsOut, ConfidenceLines)
          /\ (Len(frontInput.results) > 0 /\ ~IsAnycast(frontInput.results[1])) =>
                Summarised(cliOut) /\ Summarised(wsOut)

\* both front ends report High for a winner of exactly 1 ms, ahead of a
\* candidate of 20 ms
C18_Witness ==
    /\ cliPc = "exit0"
    /\ wsPc = "prompt"
    /\ Len(frontInput.results) = 2
    /\ frontInput.results[1].minRtt = 1000
    /\ frontInput.results[2].minRtt = 20000
    /\ LinesOf(cliOut, ConfidenceLines) = << Line("  Confidence: High", 0) >>
    /\ LinesOf(wsOut, ConfidenceLines) = << Line("  Confidence: High", 0) >>

ResultTexts == {"Top 3 Locations:", "location", "SUMMARY", "  Location:", "  Minimum Latency:"}
                   \cup ConfidenceLines

\* C19: once a front end is through, it has written none of the lines of
\* printResults when the first candidate of the returned list is flagged as
\* anycast; when the list is not empty and its first candidate is not
\* flagged, it has written the heading, one line for each of the first
\* three candidates and the summary exactly once.
C19_AnycastSuppressesSummary ==
    \A end \in {[pc |-> cliPc, out |-> cliOut], [pc |-> wsPc, out |-> wsOut]} :
        (end.pc \in {"exit0", "prompt"} /\ Len(frontInput.results) > 0) =>
            IF IsAnycast(frontInput.results[1])
            THEN LinesOf(end.out, ResultTexts) = <<>>
            ELSE /\ Len(LinesOf(end.out, {"Top 3 Locations:"})) = 1
                 /\ Len(LinesOf(end.out, {"SUMMARY"})) = 1
                 /\ Len(LinesOf(end.out, ConfidenceLines)) = 1
                 /\ LET shown == LinesOf(end.out, {"location"}) IN
                    /\ Len(shown) = (IF Len(frontInput.results) < 3
                                     THEN Len(frontInput.results) ELSE 3)
                    /\ \A i \in 1..Len(shown) : shown[i].rank = i

\* a list of four whose winner is flagged: main has left with no output and
\* handleCommand has written the prompt only
C19_Witness ==
    /\ cliPc = "exit0"
    /\ wsPc = "prompt"
    /\ ~frontInput.thrown
    /\ Len(frontInput.results) = 4
    /\ IsAnycast(frontInput.results[1])
    /\ ~IsAnycast(frontInput.results[2])
    /\ cliOut = <<>>
    /\ wsOut = << Line("", 0), Line("PROMPT", 0) >>

-----------------------------------------------------------------------------
(* Termination of a run *)

\* a getMeasurement response whose top-level status is terminal
TerminalResponse ==
    /\ GetMeasurementPending \/ GetMeasurementFinal
    /\ jobs'[phase] # "in-progress"

\* runMeasurements when measureContinents has returned NA: five continents
\* answered without a usable sample, North America with one of 1 ms
PolledInit ==
    /\ pc = "create"
    /\ phase = "country"
    /\ subs = [i \in ContinentIdx |->
                 [pc |-> "done",
                  avgLatency |-> IF CONTINENTS[i].code = "NA" THEN Average(<<1000>>) ELSE Infinity]]
    /\ continent = "NA"
    /\ jobs = [p \in PolledPhases |-> "none"]
    /\ best = NoBest
    /\ data = NoData
    /\ request = NoRequest
    /\ countryResults = <<>>
    /\ stateResults = <<>>
    /\ result = <<>>
    /\ error = ""
    /\ callFailed = FALSE
    /\ limitsRequested = Len(CONTINENTS) * ContinentLimit
    /\ ExtractIdle /\ AggIdle /\ FrontIdle /\ WebIdle

\* the steps of the polled phases
PolledNext ==
    \/ CreateMeasurement
    \/ GetMeasurementFails
    \/ GetMeasurementPending
    \/ GetMeasurementFinal
    \/ Sleep

\* the polled phases of a run when every service call returns and a job
\* that is polled again and again reports a terminal status
PolledFairSpec ==
    PolledInit /\ [][PolledNext]_vars /\ WF_vars(PolledNext) /\ SF_vars(TerminalResponse)

\* C20: when every service call returns and every job reports a terminal
\* status in the end, a run ends: it returns, with the list of the last phase
\* it ran, or throws, and it has run at most four phases.
C20_RunTerminates ==
    /\ <>(pc \in {"done", "failed"})
    /\ [](pc = "done" => result = ReturnedList)
    /\ [](Cardinality({p \in PolledPhases : jobs[p] # "none"}) + 1 <= 4)

-----------------------------------------------------------------------------
(* The worker and its rate limiter (src/web/worker/index.ts) *)

\* the age in ms below which an entry of another session blocks an acquire
Window == 30000

\* the instants Date.now() is read at: an entry made at 0 is one ms short of
\* the window at the second and exactly as old as the window at the third
Instants == {0, Window - 1, Window}

\* the statuses container.fetch answers with: the upgrade, or a failure
ContainerStatuses == {101, 500}

Paths == {"/", "/ws", "/release", "/favicon.ico"}

UpgradeHeaders == {"websocket", ""}

\* if (existing): a stored entry is an object, hence truthy
HasEntry(e) == e.timestamp # null

\* the condition of Limited without its test of the age
LimitedForever(map, ip, id, t) ==
    /\ HasEntry(map[ip])
    /\ map[ip].id # id

\* the condition under which RateLimiter.fetch answers an acquire with 429
Limited(map, ip, id, t) ==
    /\ HasEntry(map[ip])
    /\ t - map[ip].timestamp < Window
    /\ map[ip].id # id

\* this.sessions after action=acquire of session id for ip at time t
AfterAcquire(map, ip, id, t) ==
    IF Limited(map, ip, id, t)
    THEN map
    ELSE [map EXCEPT ![ip] = [id |-> id, timestamp |-> t]]

\* the condition of Deletes without its test of the id
DeletesAlways(map, ip, id) == TRUE

\* the condition under which action=release deletes the entry of ip
Deletes(map, ip, id) == ~HasEntry(map[ip]) \/ map[ip].id = id

\* this.sessions after action=release of session id for ip
AfterRelease(map, ip, id) ==
    IF Deletes(map, ip, id) THEN [map EXCEPT ![ip] = NoEntry] ELSE map

\* checkRateLimit: response.status === 200
checkRateLimit(map, ip, id, t) == ~Limited(map, ip, id, t)

\* the response of the worker to a request it answers without a call of
\* the rate limiter or the container (0 when there is none)
ImmediateStatus(path, upgrade, session) ==
    CASE path = "/"                                -> 200
      [] path = "/ws" /\ upgrade # "websocket"     -> 426
      [] path = "/ws" /\ session = ""              -> 400
      [] path = "/ws"                              -> 0
      [] path = "/release" /\ session = ""         -> 200
      [] path = "/release"                         -> 0
      [] OTHER                                     -> 404

\* a worker that releases after no container response
ReleaseSkipped(status) == FALSE

\* if (response.status !== 101): the container response after which the
\* worker releases the slot
NeedsRelease(status) == status # 101

\* a response of the worker, with what the request carried
Answered(r, status) ==
    [path |-> r.path, upgrade |-> r.upgrade, hasSession |-> r.session # "",
     status |-> status]

\* the requests to the worker, told apart by what fetch reads of them: the
\* Upgrade header for /ws only, the session below /ws and /release only, the
\* client ip only when the rate limiter is called; a request that carries a
\* session id is a request of the page that drew it
WorkerRequests ==
    {r \in [path : Paths, upgrade : UpgradeHeaders, ip : Ips,
            session : SessionIds \cup {""}] :
        /\ r.path # "/ws" => r.upgrade = ""
        /\ r.path \notin {"/ws", "/release"} => r.session = ""
        /\ r.session # "" => [ip |-> r.ip, session |-> r.session] \in Pages
        /\ r.session = "" => r.ip = "203.0.113.7"}

\* a request arrives at the worker: fetch up to its first await, or to its
\* return when it has none
Fetch(f, r) ==
    /\ requests[f].pc = "idle"
    /\ LET status == ImmediateStatus(r.path, r.upgrade, r.session)
       IN  IF status # 0
           THEN /\ response' = Answered(r, status)
                /\ UNCHANGED requests
           ELSE /\ requests' = [requests EXCEPT ![f] =
                       [pc |-> IF r.path = "/ws" THEN "acquire" ELSE "release",
                        path |-> r.path, upgrade |-> r.upgrade, ip |-> r.ip,
                        session |-> r.session,
                        status |-> IF r.path = "/ws" THEN 0 ELSE 200]]
                /\ UNCHANGED response
    /\ UNCHANGED <<sessions, now, active>>
    /\ UNCHANGED <<runVars, extractVars, aggVars, frontVars, cmdVars, connVars>>

\* the rate limiter handles the acquire of checkRateLimit, and the worker
\* goes on to container.fetch or answers 429
Acquire(f) ==
    LET r == requests[f]
    IN  /\ r.pc = "acquire"
        /\ sessions' = AfterAcquire(sessions, r.ip, r.session, now)
        /\ IF checkRateLimit(sessions, r.ip, r.session, now)
           THEN /\ requests' = [requests EXCEPT ![f].pc = "container"]
                /\ active' = active \cup {<<r.ip, r.session>>}
                /\ UNCHANGED response
           ELSE /\ requests' = [requests EXCEPT ![f] = IdleRequest]
                /\ response' = Answered(r, 429)
                /\ active' = active
        /\ UNCHANGED now
        /\ UNCHANGED <<runVars, extractVars, aggVars, frontVars, cmdVars, connVars>>

\* container.fetch answers: the worker returns the upgrade, or goes on to
\* releaseRateLimit
ContainerFetch(f, status) ==
    LET r == requests[f]
    IN  /\ r.pc = "container"
        /\ IF ~NeedsRelease(status)
           THEN /\ requests' = [requests EXCEPT ![f] = IdleRequest]
                /\ response' = Answered(r, status)
           ELSE /\ requests' = [requests EXCEPT ![f] =
                       [r EXCEPT !.pc = "release", !.status = status]]
                /\ UNCHANGED response
        /\ UNCHANGED <<sessions, now, active>>
        /\ UNCHANGED <<runVars, extractVars, aggVars, frontVars, cmdVars, connVars>>

\* the rate limiter handles the release of releaseRateLimit
Release(f) ==
    LET r == requests[f]
    IN  /\ r.pc = "release"
        /\ sessions' = AfterRelease(sessions, r.ip, r.session)
        /\ active' = active \ {<<r.ip, r.session>>}
        /\ requests' = [requests EXCEPT ![f].pc = "respond"]
        /\ UNCHANGED <<now, response>>
        /\ UNCHANGED <<runVars, extractVars, aggVars, frontVars, cmdVars, connVars>>

\* the worker resumes after await releaseRateLimit and returns its response
Respond(f) ==
    LET r == requests[f]
    IN  /\ r.pc = "respond"
        /\ requests' = [requests EXCEPT ![f] = IdleRequest]
        /\ response' = Answered(r, r.status)
        /\ UNCHANGED <<sessions, now, active>>
        /\ UNCHANGED <<runVars, extractVars, aggVars, frontVars, cmdVars, connVars>>

\* time passes
Tick(t) ==
    /\ t > now
    /\ now' = t
    /\ UNCHANGED <<sessions, requests, response, active>>
    /\ UNCHANGED <<runVars, extractVars, aggVars, frontVars, cmdVars, connVars>>

LimiterInit == Init

LimiterNext ==
    \/ \E f \in Fetches, r \in WorkerRequests : Fetch(f, r)
    \/ \E f \in Fetches : Acquire(f)
    \/ \E f \in Fetches, status \in ContainerStatuses : ContainerFetch(f, status)
    \/ \E f \in Fetches : Release(f)
    \/ \E f \in Fetches : Respond(f)
    \/ \E t \in Instants : Tick(t)

\* the worker under every interleaving of its requests and every passage of time
LimiterSpec == LimiterInit /\ [][LimiterNext]_vars

\* C21: at every moment at most one session per client ip has been admitted
\* (its acquire answered 'ok') and has not released since.
C21_OneActiveSessionPerIp ==
    \A ip \in Ips : Cardinality({p \in active : p[1] = ip}) <= 1

\* the invocation f of the worker's fetch receives the answer to its acquire
AcquireAnswered(f) == requests[f].pc = "acquire" /\ requests'[f] # requests[f]

\* C27: an acquire for an ip whose entry belongs to another session and is
\* younger than 30000 ms is answered 429 and leaves the map as it is; every
\* other acquire (no entry, the same session, or an entry of 30000 ms or
\* more) is answered 'ok' and sets the entry to the requesting session with
\* the current time.
C27_AcquireAnswers ==
    [][\A f \in Fetches : AcquireAnswered(f) =>
          LET r == requests[f]
              e == sessions[r.ip]
          IN  IF e # NoEntry /\ e.id # r.session /\ now - e.timestamp < 30000
              THEN /\ requests'[f].pc = "idle"
                   /\ response'.status = 429
                   /\ sessions' = sessions
              ELSE /\ requests'[f].pc = "container"
                   /\ sessions' = [sessions EXCEPT
                          ![r.ip] = [id |-> r.session, timestamp |-> now]]]_vars

\* an acquire was answered 429, and since then the acquire of another
\* session has replaced an entry as old as the window
C27_Witness ==
    /\ response.status = 429
    /\ now = Window
    /\ \E ip \in Ips : /\ sessions[ip].timestamp = Window
                       /\ Cardinality({p \in active : p[1] = ip}) = 2

\* the rate limiter handles the release of invocation f
ReleaseHandled(f) == requests[f].pc = "release" /\ requests'[f].pc = "respond"

\* C28: a release removes the entry of an ip only when the stored session
\* id is the releasing one; the release of any other session leaves the map
\* as it is, so no session frees the slot another session holds on its ip.
C28_ReleaseOwnEntryOnly ==
    [][\A f \in Fetches : ReleaseHandled(f) =>
          LET r == requests[f]
          IN  sessions' = IF sessions[r.ip].id = r.session
                          THEN [sessions EXCEPT ![r.ip] = NoEntry]
                          ELSE sessions]_vars

\* a session has released while the entry of its ip belongs to another
\* session, and the entry is still there
C28_Witness ==
    \E f \in Fetches :
        /\ requests[f].pc = "respond"
        /\ HasEntry(sessions[requests[f].ip])
        /\ sessions[requests[f].ip].id # requests[f].session

\* the worker returns the response of an admitted /ws request whose
\* container response was no upgrade
ReturnsContainerFailure(f) ==
    /\ requests[f].pc = "respond"
    /\ requests[f].path = "/ws"
    /\ requests'[f].pc = "idle"

\* C29 as stated: when the response of an admitted /ws request whose
\* container response was no upgrade is returned, the rate limiter holds no
\* entry for the request's ip under the request's session id.
C29_NoEntryAtReturn ==
    [][\A f \in Fetches : ReturnsContainerFailure(f) =>
          sessions[requests[f].ip].id # requests[f].session]_vars

\* the worker returns the response to a /ws request the rate limiter admitted
ReturnsAdmitted(f) ==
    /\ requests[f].pc \in {"container", "release", "respond"}
    /\ requests[f].path = "/ws"
    /\ requests'[f].pc = "idle"

\* a /ws request without session id or without websocket Upgrade header is
\* answered 400 or 426, and what the rate limiter is asked for and what it
\* stores carries a session id
NoSlotWithoutSession ==
    /\ response.path = "/ws" /\ (response.upgrade # "websocket" \/ ~response.hasSession)
           => response.status \in {400, 426}
    /\ \A f \in Fetches : requests[f].pc # "idle" => requests[f].session # ""
    /\ \A f \in Fetches : requests[f].pc \in {"acquire", "container"}
           => requests[f].upgrade = "websocket"
    /\ \A ip \in Ips : sessions[ip] = NoEntry \/ sessions[ip].id \in SessionIds

\* C29: the worker returns the response to an admitted /ws request whose
\* container response is no upgrade (status other than 101) only after the
\* rate limiter has handled its release; when the release is handled the
\* rate limiter holds no entry for the ip under the session id, and when the
\* response is returned it holds one only if the session was admitted again
\* in between. A request without session id or without websocket Upgrade
\* header never acquires a slot.
C29_ReleasedBeforeResponse ==
    /\ [][\A f \in Fetches :
            /\ ReturnsAdmitted(f) /\ response'.status # 101
                   => requests[f].pc = "respond"
            /\ ReleaseHandled(f)
                   => sessions'[requests[f].ip].id # requests[f].session
            /\ ReturnsContainerFailure(f)
                   => \/ sessions[requests[f].ip].id # requests[f].session
                      \/ <<requests[f].ip, requests[f].session>> \in active]_vars
    /\ []NoSlotWithoutSession

\* the release of an admitted /ws request whose container answered 500 has
\* been handled, its response is not returned yet, and the entry is gone
C29_Witness ==
    \E f \in Fetches :
        /\ requests[f].pc = "respond"
        /\ requests[f].path = "/ws"
        /\ requests[f].status = 500
        /\ sessions[requests[f].ip] = NoEntry
        /\ response.status = 426

-----------------------------------------------------------------------------
(* The server's handleCommand up to its call of runMeasurements            *)
(* (src/web/src/server.ts)                                                 *)

\* the longest command line, in words and runs of whitespace
MaxParts == 3

DEFAULT_LIMIT == 100

MAX_LIMIT == 250

\* numbers are kept in tenths, so that Number('0.5') and Number('1.5') are integers
LimitScale == 10

\* a run of whitespace in the command line
Blank == " "

\* the words a command line is made of
Words == {"8.8.8.8", "::1", "host", "-L", "--limit",
          "200", "250", "251", "1", "1.5", "0.5", "0", "abc"}

\* isValidIp: the words the ipv4 or the ipv6 pattern matches
isValidIp(ip) == ip \in {"8.8.8.8", "::1"}

\* !isNaN(Number(word))
IsNumeric(word) == word \in {"200", "250", "251", "1", "1.5", "0.5", "0"}

\* Number(word) of a numeric word, in tenths
NumberOf(word) ==
    CASE word = "200" -> 2000
      [] word = "250" -> 2500
      [] word = "251" -> 2510
      [] word = "1"   -> 10
      [] word = "1.5" -> 15
      [] word = "0.5" -> 5
      [] word = "0"   -> 0

\* input.trim().split(/\s+/): the words between the runs of whitespace, and
\* one empty word when there is none
SplitInput(input) ==
    LET words == SelectSeq(input, LAMBDA w : w # Blank)
    IN  IF words = <<>> THEN <<"">> ELSE words

\* a parseInput that passes the value of the option on as it is
Unclamped(val) == val

\* Math.min(val, MAX_LIMIT)
ClampLimit(val) == IF val < MAX_LIMIT * LimitScale THEN val ELSE MAX_LIMIT * LimitScale

RECURSIVE ScanOptions(_, _, _, _)
\* the for loop of parseInput from index i on (i counts from 1)
ScanOptions(parts, i, ip, limit) ==
    IF i > Len(parts)
    THEN [ip |-> ip, limit |-> limit]
    ELSE IF parts[i] \in {"-L", "--limit"}
         THEN IF i + 1 > Len(parts) \/ ~IsNumeric(parts[i + 1])
                 \/ NumberOf(parts[i + 1]) < 1 * LimitScale
              THEN [error |-> <<"Invalid limit value">>]
              ELSE ScanOptions(parts, i + 2, ip, ClampLimit(NumberOf(parts[i + 1])))
         ELSE ScanOptions(parts, i + 1, ip, limit)

parseInput(input) ==
    LET parts == SplitInput(input)
    IN  IF parts[1] = ""
        THEN [error |-> <<"Please enter an IP address">>]
        ELSE IF ~isValidIp(parts[1])
             THEN [error |-> <<"Invalid IP address: ", parts[1]>>]
             ELSE ScanOptions(parts, 2, parts[1], DEFAULT_LIMIT * LimitScale)

PROMPT == <<"geolocate> ">>

\* the command lines handleCommand is called with: inputBuffer.trim() is
\* not empty
CmdInputs ==
    {input \in UNION {[1..n -> Words \cup {Blank}] : n \in 1..MaxParts} :
        \E i \in 1..Len(input) : input[i] # Blank}

CmdInit ==
    /\ RunInit
    /\ ExtractIdle /\ AggIdle /\ FrontIdle
    /\ LimiterIdle /\ ConnIdle
    /\ cmdInput \in CmdInputs
    /\ cmdPc = "call"
    /\ cmdOut = <<>>
    /\ cmdRun = NoRun

\* handleCommand(ws, input) up to await runMeasurements, or to its return
\* after an error of parseInput
HandleCommand ==
    /\ cmdPc = "call"
    /\ LET parsed == parseInput(cmdInput)
       IN  IF "error" \in DOMAIN parsed
           THEN /\ cmdOut' = <<<<"Error: ">> \o parsed.error, PROMPT>>
                /\ cmdPc' = "prompt"
                /\ UNCHANGED cmdRun
           ELSE /\ cmdOut' = <<<<"Geolocating ", parsed.ip, "...">>>>
                /\ cmdRun' = [ip |-> parsed.ip, limit |-> parsed.limit]
                /\ cmdPc' = "await"
    /\ UNCHANGED cmdInput
    /\ UNCHANGED <<runVars, extractVars, aggVars, frontVars, limiterVars, connVars>>

CmdNext == HandleCommand

\* one command line handed to handleCommand
CmdSpec == CmdInit /\ [][CmdNext]_vars

\* the words of the command line
CmdParts == SelectSeq(cmdInput, LAMBDA w : w # Blank)

IsOption(w) == w = "-L" \/ w = "--limit"

\* the command line has an invalid ip, or an option whose value is missing,
\* not a number or below 1
Rejectable ==
    \/ CmdParts[1] \notin {"8.8.8.8", "::1"}
    \/ \E i \in 2..Len(CmdParts) :
          /\ IsOption(CmdParts[i])
          /\ \/ i = Len(CmdParts)
             \/ CmdParts[i + 1] \notin {"200", "250", "251", "1", "1.5"}

\* C22: the limit the server passes to runMeasurements is at most 250 and
\* at least 1, and is 100 when the command line carries no -L or --limit; a
\* command line whose limit value is missing, not a number or below 1, or
\* whose ip is invalid, gets an error line and the prompt, and starts no
\* measurement.
C22_LimitInRange ==
    cmdPc # "call" =>
        /\ cmdPc = "await" =>
              /\ cmdRun.limit >= 1 * LimitScale
              /\ cmdRun.limit <= 250 * LimitScale
              /\ (\A i \in 1..Len(CmdParts) : ~IsOption(CmdParts[i]))
                     => cmdRun.limit = 100 * LimitScale
        /\ Rejectable <=> cmdPc = "prompt"
        /\ cmdPc = "prompt" =>
              /\ cmdRun = NoRun
              /\ cmdOut[1][1] = "Error: "
              /\ Len(cmdOut) = 2
        /\ cmdPc = "await" <=> cmdRun # NoRun

\* the command line asked for 251 probes and runMeasurements is called with 250
C22_Witness ==
    /\ cmdPc = "await"
    /\ cmdInput = <<"8.8.8.8", "-L", "251">>
    /\ cmdRun = [ip |-> "8.8.8.8", limit |-> 250 * LimitScale]

-----------------------------------------------------------------------------
(* One WebSocket connection of the server (src/web/src/server.ts)          *)

\* the messages a connection receives
MaxMessages == 3

\* the characters of a message: a printable one, a space, carriage return,
\* backspace, and a control character the handler ignores
Chars == {"a", " ", "CR", "BS", "TAB"}

\* the messages: single key strokes, and pasted text that holds a command
\* line and what follows it
Chunks == {<<c>> : c \in Chars} \cup
          {<<"a", "CR", "a">>, <<"a", "CR", "a", "CR">>, <<" ", "CR", "a", "BS">>}

\* inputBuffer.trim() is not empty
HasCommand(buffer) == \E i \in 1..Len(buffer) : buffer[i] # " "

\* a handler that reads every message
DiscardsNothing(b) == FALSE

\* if (busy) return
Discards(b) == b

RECURSIVE Feed(_, _, _)
\* the for loop of the message handler over the characters left, up to its
\* end or to the await of handleCommand
Feed(buffer, frames, chars) ==
    IF chars = <<>>
    THEN [inputBuffer |-> buffer, sent |-> frames, busy |-> FALSE, chunkRest |-> <<>>]
    ELSE LET c == Head(chars)
         IN  CASE c = "CR" ->
                    IF HasCommand(buffer)
                    THEN [inputBuffer |-> <<>>, sent |-> frames, busy |-> TRUE,
                          chunkRest |-> Tail(chars)]
                    ELSE Feed(buffer, frames + 1, Tail(chars))
               [] c = "BS" ->
                    IF Len(buffer) > 0
                    THEN Feed(SubSeq(buffer, 1, Len(buffer) - 1), frames + 1, Tail(chars))
                    ELSE Feed(buffer, frames, Tail(chars))
               [] c \in {"a", " "} -> Feed(Append(buffer, c), frames + 1, Tail(chars))
               [] OTHER -> Feed(buffer, frames, Tail(chars))

ConnInit == Init

\* ws.on('message'): the handler up to its return or to the await of handleCommand
Message(chunk) ==
    /\ ~closed
    /\ received < MaxMessages
    /\ received' = received + 1
    /\ IF Discards(busy)
       THEN /\ discarded' = discarded + 1
            /\ UNCHANGED <<busy, inputBuffer, chunkRest, inProgress, sent>>
       ELSE LET after == Feed(inputBuffer, sent, chunk)
            IN  /\ inputBuffer' = after.inputBuffer
                /\ sent' = after.sent
                /\ busy' = after.busy
                /\ chunkRest' = after.chunkRest
                /\ inProgress' = inProgress + (IF after.busy THEN 1 ELSE 0)
                /\ UNCHANGED discarded
    /\ UNCHANGED closed
    /\ UNCHANGED <<runVars, extractVars, aggVars, frontVars, limiterVars, cmdVars>>

\* handleCommand returns: busy = false, and the handler reads on
HandlerReturns ==
    /\ inProgress > 0
    /\ LET after == Feed(inputBuffer, sent, chunkRest)
       IN  /\ inputBuffer' = after.inputBuffer
           /\ sent' = after.sent
           /\ busy' = after.busy
           /\ chunkRest' = after.chunkRest
           /\ inProgress' = inProgress - 1 + (IF after.busy THEN 1 ELSE 0)
    /\ UNCHANGED <<received, discarded, closed>>
    /\ UNCHANGED <<runVars, extractVars, aggVars, frontVars, limiterVars, cmdVars>>

\* ws.on('close')
Close ==
    /\ ~closed
    /\ closed' = TRUE
    /\ inputBuffer' = <<>>
    /\ UNCHANGED <<busy, chunkRest, inProgress, sent, received, discarded>>
    /\ UNCHANGED <<runVars, extractVars, aggVars, frontVars, limiterVars, cmdVars>>

ConnNext ==
    \/ \E chunk \in Chunks : Message(chunk)
    \/ HandlerReturns
    \/ Close

\* one connection, its messages arriving at any time
ConnSpec == ConnInit /\ [][ConnNext]_vars

\* C30: a connection has at most one command in progress; a message that
\* arrives while a command runs is discarded whole (nothing is echoed,
\* nothing is buffered, nothing is left to run later); busy is set exactly
\* while a call of handleCommand has not returned.
C30_OneCommandAtATime ==
    /\ [](inProgress <= 1 /\ (busy <=> inProgress = 1))
    /\ [][received' # received /\ inProgress > 0 =>
            /\ discarded' = discarded + 1
            /\ UNCHANGED <<busy, inputBuffer, chunkRest, inProgress, sent>>]_vars
    /\ [][discarded' # discarded => inProgress > 0]_vars

\* a message was discarded while a command runs, and the rest of the
\* message that started the command is still to be read
C30_Witness ==
    /\ discarded = 1
    /\ inProgress = 1
    /\ busy
    /\ chunkRest = <<"a", "CR">>
    /\ sent = 1

-----------------------------------------------------------------------------
(* The steps of a polling loop *)

\* C23: a fetch that reports in-progress is followed by the sleep and the
\* sleep by the next fetch, a fetch follows the creation of the job or a
\* sleep only, and the fetch that reports a terminal status (any status
\* other than in-progress) is followed by no sleep.
C23_FetchRenderSleep ==
    [][/\ pc = "sleep" => pc' = "poll"
       /\ pc' = "poll" => pc \in {"create", "sleep"}
       /\ pc = "poll" /\ jobs'[phase] = "in-progress" => pc' = "sleep"
       /\ pc = "poll" /\ jobs'[phase] \in JobStatuses \ {"in-progress"}
              => pc' # "sleep"]_vars

-----------------------------------------------------------------------------
(* Ties and repeated aggregation *)

\* the position in data.results of the first usable sample of the key k
FirstObserved(p, results, k) ==
    LET IsOfKey(i) == /\ extractLatencyFromTraceroute(results[i].result) # null
                      /\ KeyOf(p, results[i].probe) = k
    IN  CHOOSE i \in 1..Len(results) :
            IsOfKey(i) /\ \A j \in 1..(i - 1) : ~IsOfKey(j)

\* C24: candidates of a ranked list whose minRtt is exactly equal stand in
\* the order in which their keys were first observed in the job's results.
C24_TiesKeepInsertionOrder ==
    aggReturned =>
        \A i, j \in 1..Len(aggRanked) :
            (i < j /\ aggRanked[i].minRtt = aggRanked[j].minRtt) =>
                FirstObserved(aggInput.phase, aggInput.results,
                              CandidateKey(aggInput.phase, aggRanked[i]))
                  < FirstObserved(aggInput.phase, aggInput.results,
                                  CandidateKey(aggInput.phase, aggRanked[j]))

\* Berlin, then the probe without city, then Miami, the last two with the
\* same minRtt: they lead the list in the order of the response
C24_Witness ==
    /\ aggReturned
    /\ aggInput.phase = "city"
    /\ Len(aggInput.results) = 3
    /\ aggInput.results[1].probe.city = "Berlin"
    /\ aggInput.results[2].probe.city = ""
    /\ aggInput.results[3].probe.city = "Miami"
    /\ Len(aggRanked) = 3
    /\ aggRanked[1].minRtt = aggRanked[2].minRtt
    /\ aggRanked[1].city # "Miami"
    /\ aggRanked[2].city = "Miami"
    /\ aggRanked[3].city = "Berlin"

\* the final job states the aggregation is run twice on
RerunInit ==
    /\ AggInit
    /\ Len(aggInput.results) < MaxGroup

\* the code of a polled phase from the end of its loop to its return, run a
\* second time on the job state the first run was given
AggregateAgain ==
    /\ aggReturned
    /\ ~aggAgain
    /\ aggAgain' = TRUE
    /\ aggRanked' = RankedAgain(aggInput.phase, aggInput.ctx, aggInput.results, aggRanked)
    /\ UNCHANGED <<runVars, extractVars, aggInput, aggReturned, frontVars, webVars>>

RerunNext == Aggregate \/ AggregateAgain

\* two runs of the aggregation on one final job state
RerunSpec == RerunInit /\ [][RerunNext]_vars

-----------------------------------------------------------------------------
(* The leader of the last loop iteration and the list returned *)

\* C26 as stated: when a polled phase has left its loop, the leader rendered
\* by the last iteration is the key and the minRtt of the first candidate of
\* the list the phase returns, ties included, and no leader was rendered
\* when the list is empty.
C26_LeaderIsFirstCandidate ==
    data # NoData =>
        IF ReturnedList = <<>>
        THEN best = NoBest
        ELSE /\ best.key = CandidateKey(request.phase, ReturnedList[1])
             /\ best.latency = ReturnedList[1].minRtt

\* C26 (amended): when the response that ends the loop of a polled phase
\* holds a usable sample, the leader rendered by that iteration is the key
\* and the minRtt of the first candidate of the list the phase returns, ties
\* included; the list is empty exactly when that response holds no usable
\* sample, and the iteration then renders the leader an earlier iteration
\* left, if any.
C26_LeaderOfFinalResponse ==
    data # NoData =>
        /\ ReturnedList = <<>> <=>
              \A i \in 1..Len(data.results) :
                  extractLatencyFromTraceroute(data.results[i].result) = null
        /\ ReturnedList # <<>> =>
              /\ best.key = CandidateKey(request.phase, ReturnedList[1])
              /\ best.latency = ReturnedList[1].minRtt

\* the country loop has ended on two samples with the same latency: the
\* leader is the country of the first one, which heads the list
C26_Witness ==
    /\ request.phase = "country"
    /\ data.status = "finished"
    /\ Len(countryResults) = 2
    /\ countryResults[1].minRtt = countryResults[2].minRtt
    /\ countryResults[1].country = data.results[1].probe.country
    /\ best = [key |-> countryResults[1].country, latency |-> countryResults[1].minRtt]

====
